---- MODULE Spec2Model ----
(***************************************************************************)
(* Model of src/script.js: the register-button registry                    *)
(* (initRegisterButtons) and the per-click checkout sequence               *)
(* (handleRegisterClick) with its two network calls and the hosted         *)
(* payment widget.                                                         *)
(*                                                                         *)
(* JavaScript runs one task at a time and drains the microtask queue       *)
(* before the next task.  An action of this model is therefore one task    *)
(* (a click, the arrival of a network response, a widget callback)         *)
(* followed by everything the handler does until its next pending await.   *)
(***************************************************************************)
EXTENDS Integers, Sequences, FiniteSets, TLC

(* ------------------------------ bounds --------------------------------- *)
\* handler invocations (click sequences) in one run
MaxClicks == 2

(* ------------------------- JavaScript values --------------------------- *)
\* Values are written as their source text; a quoted text is a JS string.
Undefined == "undefined"

\* ToBoolean, as used by `&&`, `||`, `!` and `if` (lines 124, 139, 172, 205, 209)
Truthy(v) == v \notin {"undefined", "null", "false", "0", "''"}

\* a decoded JSON body: the fields the script reads; isNull is the JSON value null
JsonNull == [isNull |-> TRUE, order_id |-> Undefined, amount |-> Undefined, verified |-> Undefined]
JsonObj(oid, amt, ver) == [isNull |-> FALSE, order_id |-> oid, amount |-> amt, verified |-> ver]

(* ------------------------------ the page ------------------------------- *)
Elems == {"btn", "lnk"}
\* <button class="register-btn" id="registerBtn" data-amount="149.5" data-receipt="booking_1">
\* <a class="register-big" href="#">            (no data-amount, no data-receipt)
Kind(el) == IF el = "btn" THEN "button" ELSE "link"
Matches(el) == IF el = "btn" THEN {".register-btn", "#registerBtn"} ELSE {".register-big"}
InitialLabel(el) == IF el = "btn" THEN "Register" ELSE "Register Now"
Absent == <<"absent">>
InitialAmountAttr(el) == IF el = "btn" THEN <<"1", "4", "9", ".", "5">> ELSE Absent
ReceiptAttr(el) == IF el = "btn" THEN "booking_1" ELSE ""

\* line 198
selectors == {".register-btn", ".registerBtn", "[data-register]", ".register-big", "#registerBtn", "#registerSectionBtn"}
LOADING == "Loading..."

(* ------------------------------ toPaise -------------------------------- *)
\* Strings that are parsed are sequences of one-character strings.
Digits == <<"0", "1", "2", "3", "4", "5", "6", "7", "8", "9">>
IsDigit(c) == \E i \in 1..10 : Digits[i] = c
DigitVal(c) == (CHOOSE i \in 1..10 : Digits[i] = c) - 1

RECURSIVE TrimLeft(_)
TrimLeft(s) == IF s # <<>> /\ Head(s) = " " THEN TrimLeft(Tail(s)) ELSE s
RECURSIVE TrimRight(_)
TrimRight(s) == IF s # <<>> /\ s[Len(s)] = " " THEN TrimRight(SubSeq(s, 1, Len(s) - 1)) ELSE s
\* String.prototype.trim (line 29)
Trim(s) == TrimRight(TrimLeft(s))

RECURSIVE DigitsValue(_)
DigitsValue(s) == IF s = <<>> THEN 0 ELSE 10 * DigitsValue(SubSeq(s, 1, Len(s) - 1)) + DigitVal(s[Len(s)])
RECURSIVE Pow10(_)
Pow10(n) == IF n = 0 THEN 1 ELSE 10 * Pow10(n - 1)
AllDigits(s) == \A i \in 1..Len(s) : IsDigit(s[i])

\* Number(string) for decimal literals: [nan, num, den] is the value num/den.
\* The empty string is 0; anything that is no decimal literal is NaN.
NaN == [nan |-> TRUE, num |-> 0, den |-> 1]
UnsignedNumber(s) ==
    LET dots == {i \in 1..Len(s) : s[i] = "."}
        dot == IF dots = {} THEN Len(s) + 1 ELSE CHOOSE i \in dots : \A j \in dots : i <= j
        ip == SubSeq(s, 1, dot - 1)
        fp == SubSeq(s, dot + 1, Len(s))
    IN  IF AllDigits(ip) /\ AllDigits(fp) /\ Len(ip) + Len(fp) >= 1
        THEN [nan |-> FALSE, num |-> DigitsValue(ip \o fp), den |-> Pow10(Len(fp))]
        ELSE NaN
ToNumber(str) ==
    LET s == Trim(str)
    IN  IF s = <<>> THEN [nan |-> FALSE, num |-> 0, den |-> 1]
        ELSE IF Head(s) = "-"
             THEN LET u == UnsignedNumber(Tail(s)) IN [u EXCEPT !.num = 0 - u.num]
        ELSE IF Head(s) = "+" THEN UnsignedNumber(Tail(s))
        ELSE UnsignedNumber(s)

\* Math.round: the nearest integer, a tie going up (line 31)
MathRound(num, den) == (2 * num + den) \div (2 * den)

\* lines 27-32, for a string argument
toPaise_Floor(amount) ==
    LET n == ToNumber(amount)
        x == IF n.nan THEN [nan |-> FALSE, num |-> 0, den |-> 1] ELSE n
    IN  (x.num * 100) \div x.den
toPaise(amount) ==
    LET n == ToNumber(amount)
        x == IF n.nan THEN [nan |-> FALSE, num |-> 0, den |-> 1] ELSE n
    IN  MathRound(x.num * 100, x.den)

\* The arguments of toPaise: a string, a number, null or undefined.
StrArg(s) == [t |-> "string", s |-> s, n |-> NaN]
NumArg(n) == [t |-> "number", s |-> <<>>, n |-> n]
NullArg == [t |-> "null", s |-> <<>>, n |-> NaN]
UndefinedArg == [t |-> "undefined", s |-> <<>>, n |-> NaN]
Zero == [nan |-> FALSE, num |-> 0, den |-> 1]
\* lines 27-32, for any of these arguments: only a string is trimmed
\* (line 29), Number(null) is 0 and Number(undefined) is NaN (line 30)
toPaiseOf(a) ==
    IF a.t = "string" THEN toPaise(a.s)
    ELSE LET n == IF a.t = "number" THEN a.n ELSE IF a.t = "null" THEN Zero ELSE NaN
             x == IF n.nan THEN Zero ELSE n
         IN  MathRound(x.num * 100, x.den)

VARIABLES
    inDOM,        \* the elements of the document so far
    amountAttr,   \* el -> the data-amount attribute (dataset.amount)
    attached,     \* el -> el.__registerHandlerAttached
    listeners,    \* el -> number of click listeners added to el
    disabled,     \* el -> el.disabled
    label,        \* el -> el.innerHTML
    nclicks,      \* click events dispatched to a bound element so far
    nseq,         \* handler invocations started so far
    frame,        \* invocation -> the locals of that handleRegisterClick call
    late,         \* widget callbacks that found their checkout already resolved
    faqDisplay,   \* FAQ question -> style.display of the answer that follows it
    faqLast,      \* the FAQ question clicked last
    paiseIn,      \* the argument of a call of toPaise
    paiseOut      \* what that call returned

vars == <<inDOM, amountAttr, attached, listeners, disabled, label, nclicks, nseq, frame,
          late, faqDisplay, faqLast, paiseIn, paiseOut>>
\* the state of the FAQ accordion and of the call of toPaise under study,
\* which the checkout does not touch
side == <<faqDisplay, faqLast, paiseIn, paiseOut>>

Seqs == 1..MaxClicks
(* ------------------------------ frames --------------------------------- *)
\* Checkout Options (lines 148-163): the fields that vary
NoOptions == [amount |-> 0, order_id |-> Undefined, receipt |-> [text |-> "", stamp |-> 0]]
NoPayment == [razorpay_payment_id |-> Undefined]
\* no call of handleRegisterClick
NoFrame == [pc |-> "idle", el |-> "", originalText |-> "", labelBefore |-> "",
            amountPaise |-> 0, receipt |-> [text |-> "", stamp |-> 0],
            sent |-> [amount |-> 0, receipt |-> [text |-> "", stamp |-> 0]],
            orderResult |-> JsonNull, options |-> NoOptions,
            promise |-> "none", err |-> "",
            paymentResp |-> NoPayment, verification |-> JsonNull,
            alerts |-> <<>>, log |-> <<>>]

InFlight(s) == frame[s].pc \in {"createOrder", "widget", "verify"}
Count(log, ev) == Cardinality({i \in 1..Len(log) : log[i] = ev})

(* --------------------------- Button Registry --------------------------- *)
\* a string attribute is truthy when it is present and not empty
StrTruthy(a) == a # Absent /\ a # <<>>

\* lines 198-200: the Set holds a matched element once, whatever the number
\* of selectors that match it
CollectedTimes(dom, el) == IF el \in dom /\ Matches(el) \cap selectors # {} THEN 1 ELSE 0

\* the marker is never consulted
AlreadyAttached_Ignored(att, el) == FALSE
\* line 205
AlreadyAttached(att, el) == att[el]

\* line 209
Backfilled_Overwrite(a) == <<"9", "9">>
Backfilled_Zero(a) == IF StrTruthy(a) THEN a ELSE <<"0">>
Backfilled(a) == IF StrTruthy(a) THEN a ELSE <<"9", "9">>

\* lines 196-211: one run of initRegisterButtons over the document dom
Bound(dom, att, el) == CollectedTimes(dom, el) >= 1 /\ ~AlreadyAttached(att, el)
AfterInit(dom, att, lis, amt) ==
    [attached   |-> [el \in Elems |-> att[el] \/ Bound(dom, att, el)],
     listeners  |-> [el \in Elems |-> IF Bound(dom, att, el) THEN lis[el] + 1 ELSE lis[el]],
     amountAttr |-> [el \in Elems |-> IF Bound(dom, att, el) THEN Backfilled(amt[el]) ELSE amt[el]]]

\* The script has run once (line 216) over the part of the document that
\* was parsed before it.
InitCheckout ==
    /\ inDOM \in SUBSET Elems
    /\ LET r == AfterInit(inDOM, [el \in Elems |-> FALSE], [el \in Elems |-> 0],
                          [el \in Elems |-> InitialAmountAttr(el)])
       IN  /\ attached = r.attached
           /\ listeners = r.listeners
           /\ amountAttr = r.amountAttr
    /\ disabled = [el \in Elems |-> FALSE]
    /\ label = [el \in Elems |-> InitialLabel(el)]
    /\ nclicks = 0
    /\ nseq = 0
    /\ frame = [s \in Seqs |-> NoFrame]
    /\ late = 0

\* ---- FAQ accordion (lines 43-50) ----
\* The page has NumQuestions .faq-q controls that are each followed by
\* their .faq-a block, and one more .faq-q that is the last child of its
\* parent, so that its nextElementSibling is null.
NumQuestions == 5
Answers == 1..NumQuestions
LastChild == NumQuestions + 1
Questions == Answers \cup {LastChild}
HasAnswer(i) == i \in Answers
\* a.style.display: the inline value the listener reads and writes
Displays == {"", "none", "block"}
\* the answers the listener takes to be open (line 46)
Visible(disp) == {a \in Answers : disp[a] = "block"}

\* the click listener of question i (lines 45-48)
FaqAfterClick_NoHideAll(disp, i) ==
    LET open == HasAnswer(i) /\ disp[i] = "block"
    IN  [a \in Answers |-> IF a = i THEN (IF open THEN "none" ELSE "block") ELSE disp[a]]
FaqAfterClick(disp, i) ==
    LET open == HasAnswer(i) /\ disp[i] = "block"
        hidden == [a \in Answers |-> "none"]
    IN  IF HasAnswer(i) THEN [hidden EXCEPT ![i] = IF open THEN "none" ELSE "block"]
        ELSE hidden

FaqClick(i) ==
    /\ faqDisplay' = FaqAfterClick(faqDisplay, i)
    /\ faqLast' = i
    /\ UNCHANGED <<inDOM, amountAttr, attached, listeners, disabled, label, nclicks, nseq,
                   frame, late, paiseIn, paiseOut>>

\* ---- calls of toPaise (lines 27-32) ----
\* The arguments tried are written out from numbers known in advance:
\* a sign, a whole part of at most MaxUnits (or none), and one of a few
\* fractional parts, as a string with or without blanks around it or as a
\* number; next to them strings that are no decimal literal, NaN, null and
\* undefined. "value" is the number the argument denotes, NaN if none.
\* No fractional part makes 100 times the value fall on a tie or close
\* enough to one for binary floating point to round differently.
MaxUnits == 3
RECURSIVE Render(_)
Render(n) == IF n < 10 THEN <<Digits[n + 1]>> ELSE Render(n \div 10) \o <<Digits[(n % 10) + 1]>>
Wholes == {[s |-> <<>>, k |-> 0, digits |-> 0]} \cup
          {[s |-> Render(w), k |-> w, digits |-> 1] : w \in 0..MaxUnits}
Fractions ==
    { [s |-> <<>>, num |-> 0, den |-> 1, digits |-> 0],
      [s |-> <<".">>, num |-> 0, den |-> 1, digits |-> 0],
      [s |-> <<".", "5">>, num |-> 5, den |-> 10, digits |-> 1],
      [s |-> <<".", "0", "9">>, num |-> 9, den |-> 100, digits |-> 2],
      [s |-> <<".", "0", "0", "1">>, num |-> 1, den |-> 1000, digits |-> 3],
      [s |-> <<".", "9", "9", "9">>, num |-> 999, den |-> 1000, digits |-> 3] }
Signs == {[s |-> <<>>, k |-> 1], [s |-> <<"-">>, k |-> 0 - 1], [s |-> <<"+">>, k |-> 1]}
Pads == {<<>>, <<" ">>}
NoLiteral == { <<"a", "b", "c">>, <<"9", "a">>, <<"1", ".", "2", ".", "3">>, <<"1", " ", "2">>,
               <<"-", "-", "1">>, <<"1", "-">>, <<"9", ",", "9">> }
Denoted(sg, w, fr) == [nan |-> FALSE, num |-> sg.k * (w.k * fr.den + fr.num), den |-> fr.den]
PaiseCases ==
    {[arg |-> StrArg(pad \o sg.s \o w.s \o fr.s \o pad),
      value |-> IF w.digits + fr.digits >= 1 THEN Denoted(sg, w, fr)
                ELSE IF sg.s \o fr.s = <<>> THEN Zero ELSE NaN] :
        pad \in Pads, sg \in Signs, w \in Wholes, fr \in Fractions}
    \cup {[arg |-> NumArg(Denoted(sg, w, fr)), value |-> Denoted(sg, w, fr)] :
            sg \in Signs, w \in Wholes, fr \in Fractions}
    \cup {[arg |-> StrArg(pad \o g \o pad), value |-> NaN] : pad \in Pads, g \in NoLiteral}
    \cup {[arg |-> NumArg(NaN), value |-> NaN], [arg |-> UndefinedArg, value |-> NaN],
           [arg |-> NullArg, value |-> Zero]}

CallToPaise ==
    /\ paiseOut = <<>>
    /\ paiseOut' = <<toPaiseOf(paiseIn.arg)>>
    /\ UNCHANGED <<inDOM, amountAttr, attached, listeners, disabled, label, nclicks, nseq,
                   frame, late, faqDisplay, faqLast, paiseIn>>

\* no FAQ question has been clicked and toPaise is not under study
InitSide ==
    /\ faqDisplay = [a \in Answers |-> ""]
    /\ faqLast = 0
    /\ paiseIn = <<>>
    /\ paiseOut = <<>>

Init == InitCheckout /\ InitSide

\* The accordion alone, on a fully parsed page. The markup gives each answer
\* no inline display or display:none, and pre-opens at most one answer.
InitFAQ ==
    /\ InitCheckout
    /\ inDOM = Elems
    /\ faqDisplay \in [Answers -> Displays]
    /\ Cardinality(Visible(faqDisplay)) <= 1
    /\ faqLast = 0
    /\ paiseIn = <<>>
    /\ paiseOut = <<>>

NextFAQ == \E i \in Questions : FaqClick(i)

SpecFAQ == InitFAQ /\ [][NextFAQ]_vars

\* One call of toPaise, on a fully parsed page.
InitPaise ==
    /\ InitCheckout
    /\ inDOM = Elems
    /\ faqDisplay = [a \in Answers |-> ""]
    /\ faqLast = 0
    /\ paiseIn \in PaiseCases
    /\ paiseOut = <<>>

NextPaise == CallToPaise

SpecPaise == InitPaise /\ [][NextPaise]_vars

\* the parser, or a later script, adds an element to the document
InsertElement(el) ==
    /\ el \notin inDOM
    /\ inDOM' = inDOM \cup {el}
    /\ UNCHANGED <<amountAttr, attached, listeners, disabled, label, nclicks, nseq, frame, late, side>>

\* lines 214 and 219-220: DOMContentLoaded, or window.__IELTS_Register.init()
InitRegisterButtons ==
    /\ LET r == AfterInit(inDOM, attached, listeners, amountAttr)
       IN  /\ attached' = r.attached
           /\ listeners' = r.listeners
           /\ amountAttr' = r.amountAttr
    /\ UNCHANGED <<inDOM, disabled, label, nclicks, nseq, frame, late, side>>

(* ------------------------ handleRegisterClick -------------------------- *)
\* A user cannot activate a disabled form control; `disabled` means nothing
\* on an anchor, which stays clickable (line 133 sets the property on both).
Activatable(el) == Kind(el) = "link" \/ ~disabled[el]

\* line 124
AmountOrDefault(a) == IF StrTruthy(a) THEN a ELSE <<"9", "9">>
AmountAttrOf(el) == AmountOrDefault(amountAttr[el])
\* line 126; Date.now() is the index of the invocation
ReceiptOf(el, s) ==
    IF ReceiptAttr(el) # "" THEN [text |-> ReceiptAttr(el), stamp |-> 0]
    ELSE [text |-> "receipt_", stamp |-> s]

\* line 134: the k-th listener of one click reads innerHTML after the earlier
\* listeners of that click have replaced it (line 135)
OriginalText(el, k) == IF k = 1 THEN label[el] ELSE LOADING

\* lines 122-138 and 66-72: up to the pending fetch of the create-order call
StartedFrame(el, s, k) ==
    [NoFrame EXCEPT !.pc = "createOrder", !.el = el,
        !.originalText = OriginalText(el, k), !.labelBefore = label[el],
        !.amountPaise = toPaise(AmountAttrOf(el)), !.receipt = ReceiptOf(el, s),
        !.sent = [amount |-> toPaise(AmountAttrOf(el)), receipt |-> ReceiptOf(el, s)],
        !.log = <<"create_req">>]

\* a click event on el: every listener of el is called
Click(el) ==
    /\ el \in inDOM
    /\ listeners[el] >= 1
    /\ Activatable(el)
    /\ nseq + listeners[el] <= MaxClicks
    /\ nclicks' = nclicks + 1
    /\ nseq' = nseq + listeners[el]
    /\ frame' = [s \in Seqs |->
                   IF s > nseq /\ s <= nseq + listeners[el]
                   THEN StartedFrame(el, s, s - nseq) ELSE frame[s]]
    /\ disabled' = [disabled EXCEPT ![el] = TRUE]
    /\ label' = [label EXCEPT ![el] = LOADING]
    /\ UNCHANGED <<inDOM, amountAttr, attached, listeners, late, side>>


(* ------------------------ Order Service Client ------------------------- *)
\* What fetch delivers: it rejects (network failure), or resolves with a
\* response that has a status and a body that decodes as JSON or does not.
Responses(bodies) ==
    {[rejects |-> TRUE, ok |-> FALSE, decodable |-> FALSE, body |-> JsonNull]}
    \cup {[rejects |-> FALSE, ok |-> FALSE, decodable |-> TRUE, body |-> JsonNull]}
    \cup {[rejects |-> FALSE, ok |-> TRUE, decodable |-> FALSE, body |-> JsonNull]}
    \cup {[rejects |-> FALSE, ok |-> TRUE, decodable |-> TRUE, body |-> b] : b \in bodies}

\* the completion of an async function: a value, or a raised error
Return(v) == [raised |-> FALSE, value |-> v]
Raise == [raised |-> TRUE, value |-> JsonNull]

\* res.json()
ResJson(resp) == IF resp.decodable THEN Return(resp.body) ELSE Raise
\* lines 34-36
safeJSON(resp) == IF ResJson(resp).raised THEN Return(JsonNull) ELSE ResJson(resp)

\* lines 68-74: the try block
createOrderBody(resp) ==
    IF resp.rejects THEN Raise
    ELSE IF ~resp.ok THEN Return(JsonNull)
    ELSE safeJSON(resp)
\* without the catch block
createOrderOnServer_NoCatch(resp) == createOrderBody(resp)
\* lines 66-79
createOrderOnServer(resp) ==
    IF createOrderBody(resp).raised THEN Return(JsonNull) ELSE createOrderBody(resp)

\* lines 84-89: the try block
verifyPaymentBody(resp) ==
    IF resp.rejects THEN Raise
    ELSE IF resp.ok THEN safeJSON(resp) ELSE Return(JsonNull)
\* without the catch block
verifyPaymentOnServer_NoCatch(resp) == verifyPaymentBody(resp)
\* lines 82-94
verifyPaymentOnServer(resp) ==
    IF verifyPaymentBody(resp).raised THEN Return(JsonNull) ELSE verifyPaymentBody(resp)

\* what the backends may answer
OrderId(s) == "'order_" \o ToString(s) \o "'"
PaymentId(s) == "'pay_" \o ToString(s) \o "'"
OrderBodies(s) == {JsonNull, JsonObj(OrderId(s), "9900", Undefined),
                   JsonObj(OrderId(s), Undefined, Undefined), JsonObj(Undefined, "9900", Undefined)}
VerifyBodies == {JsonNull} \cup {JsonObj(Undefined, Undefined, v) : v \in {"true", "false", "'false'", Undefined}}

(* ----------------------- openRazorpayCheckout -------------------------- *)
\* lines 102-105, 107-110, 114-116: resolve and reject act on a pending
\* promise only
\* every call of resolve or reject settles the promise anew
Signal_LastWins(f, s, sig) ==
    IF f.promise = "none" THEN f
    ELSE IF sig = "success"
         THEN [f EXCEPT !.promise = "fulfilled", !.paymentResp = [razorpay_payment_id |-> PaymentId(s)]]
    ELSE IF sig = "dismiss"
         THEN [f EXCEPT !.promise = "rejected", !.err = "checkout_dismissed"]
    ELSE [f EXCEPT !.promise = "rejected", !.err = sig]
Signal(f, s, sig) ==
    IF f.promise # "pending" THEN f
    ELSE IF sig = "success"
         THEN [f EXCEPT !.promise = "fulfilled", !.paymentResp = [razorpay_payment_id |-> PaymentId(s)]]
    ELSE IF sig = "dismiss"
         THEN [f EXCEPT !.promise = "rejected", !.err = "checkout_dismissed"]
    ELSE [f EXCEPT !.promise = "rejected", !.err = sig]

RECURSIVE Signals(_, _, _)
Signals(f, s, sigs) == IF sigs = <<>> THEN f ELSE Signals(Signal(f, s, Head(sigs)), s, Tail(sigs))

\* What `new Razorpay(...)` and `rzp.open()` may do before they return or
\* throw: Razorpay is not defined; the constructor throws; open() throws,
\* possibly after it has invoked a callback; or the widget opens.
WidgetStarts == {"opens", "ReferenceError", "ctor_throws", "open_throws",
                 "dismiss_then_throw", "success_then_throw"}
SyncSignals(start) ==
    CASE start = "opens" -> <<>>
      [] start = "ReferenceError" -> <<"ReferenceError">>
      [] start = "ctor_throws" -> <<"ctor_error">>
      [] start = "open_throws" -> <<"open_error">>
      [] start = "dismiss_then_throw" -> <<"dismiss", "open_error">>
      [] start = "success_then_throw" -> <<"success", "open_error">>

\* lines 97-118: the executor of the promise
openRazorpayCheckout(f, s, start) ==
    Signals([f EXCEPT !.promise = "pending", !.log = @ \o <<"widget_open">>],
            s, SyncSignals(start))

\* a widget instance exists once the constructor has returned
WidgetExists(f) == f.promise # "none" /\ f.err \notin {"ReferenceError", "ctor_error"}


(* --------------- handleRegisterClick after its first await ------------- *)
\* lines 139-145
ServerOrder(o) == IF ~o.isNull /\ Truthy(o.amount) THEN o ELSE JsonNull

\* the amount is taken from the server's order
\* the widget charges what the order descriptor says (9900 in OrderBodies)
BuildOptions_TrustsServer(f, serverOrder) ==
    [amount |-> IF serverOrder.isNull THEN f.amountPaise ELSE 9900,
     order_id |-> IF ~serverOrder.isNull THEN serverOrder.order_id ELSE Undefined,
     receipt |-> f.receipt]
BuildOptions_ServerAmount(f, serverOrder) ==
    [amount |-> IF serverOrder.isNull THEN 0 ELSE f.amountPaise,
     order_id |-> IF ~serverOrder.isNull THEN serverOrder.order_id ELSE Undefined,
     receipt |-> f.receipt]
\* lines 148-163
BuildOptions(f, serverOrder) ==
    [amount |-> f.amountPaise,
     order_id |-> IF ~serverOrder.isNull THEN serverOrder.order_id ELSE Undefined,
     receipt |-> f.receipt]

\* line 172
IsVerified(v) == ~v.isNull /\ Truthy(v.verified)

\* lines 172-178: the alert after the verify-payment call has returned
SuccessAlerts(f, v) ==
    <<[kind |-> IF IsVerified(v) THEN "verified" ELSE "pending",
       payment_id |-> f.paymentResp.razorpay_payment_id]>>

\* the catch block alerts whatever the error is
CatchAlerts_AlwaysAlert(err) == <<[kind |-> "failed", payment_id |-> Undefined]>>
\* the catch block only logs
CatchAlerts_NeverAlert(err) == <<>>
\* lines 179-187: the alerts of the catch block for the error err
CatchAlerts(err) ==
    IF err = "checkout_dismissed" THEN <<>>
    ELSE <<[kind |-> "failed", payment_id |-> Undefined]>>

\* the button is restored at the end of the try block instead of in finally
RestoredButton_SuccessOnly(f, dis, lab) ==
    IF f.promise = "fulfilled" /\ f.alerts # <<>> /\ f.alerts[1].kind # "failed"
    THEN [disabled |-> [dis EXCEPT ![f.el] = FALSE], label |-> [lab EXCEPT ![f.el] = f.originalText]]
    ELSE [disabled |-> dis, label |-> lab]
RestoredButton_EveryTrigger(f, dis, lab) ==
    [disabled |-> [e \in Elems |-> FALSE],
     label |-> [lab EXCEPT ![f.el] = f.originalText]]
\* lines 188-192: what the finally block leaves of the element
RestoredButton(f, dis, lab) ==
    [disabled |-> [dis EXCEPT ![f.el] = FALSE],
     label |-> [lab EXCEPT ![f.el] = f.originalText]]

\* the alerts are put off until the finally block has run
Finished_RestoreFirst(f, shown) ==
    [f EXCEPT !.pc = "done", !.alerts = @ \o shown,
              !.log = @ \o <<"restore">> \o [i \in 1..Len(shown) |-> "alert"]]
\* the handler returns: its alerts have been shown and its locals are gone
Finished(f, shown) ==
    [f EXCEPT !.pc = "done", !.alerts = @ \o shown,
              !.log = @ \o [i \in 1..Len(shown) |-> "alert"] \o <<"restore">>]

\* The order descriptor and the options are kept while the widget holds them
\* (nothing reads serverOrder after line 155, or options after line 166).
Released(f) == [f EXCEPT !.orderResult = JsonNull, !.options = NoOptions]

\* no try around the await: a rejection ends the call where it stands
AfterWidget_NoCatch(f) ==
    IF f.promise = "fulfilled"
    THEN [Released(f) EXCEPT !.pc = "verify", !.log = @ \o <<"verify_req">>]
    ELSE IF f.promise = "rejected"
         THEN [Released(f) EXCEPT !.pc = "crashed", !.log = @ \o <<"unhandled">>]
    ELSE f
\* lines 166-169 and 179-192: after `await openRazorpayCheckout(options)`
AfterWidget(f) ==
    IF f.promise = "fulfilled"
    THEN [Released(f) EXCEPT !.pc = "verify", !.log = @ \o <<"verify_req">>]
    ELSE IF f.promise = "rejected" THEN Finished(Released(f), CatchAlerts(f.err))
    ELSE f

\* the frame s becomes g; a frame that has finished has run its finally block
Step(s, g) ==
    /\ frame' = [frame EXCEPT ![s] = g]
    /\ IF g.pc = "done" /\ frame[s].pc # "done"
       THEN LET b == RestoredButton(g, disabled, label)
            IN  disabled' = b.disabled /\ label' = b.label
       ELSE UNCHANGED <<disabled, label>>
    /\ UNCHANGED <<inDOM, amountAttr, attached, listeners, nclicks, nseq, side>>

\* The create-order call completes with resp (lines 138-166): the options
\* are built and the widget is started, which behaves as `start`.
CreateOrderReturns(s, resp, start) ==
    /\ frame[s].pc = "createOrder"
    /\ UNCHANGED late
    /\ LET f == frame[s]
           r == createOrderOnServer(resp)
           f1 == [f EXCEPT !.pc = "widget", !.orderResult = r.value,
                           !.options = BuildOptions(f, ServerOrder(r.value)),
                           !.log = @ \o <<"create_ret">>]
       IN  IF r.raised
           THEN Step(s, [f EXCEPT !.pc = "crashed", !.log = @ \o <<"unhandled">>])
           ELSE Step(s, AfterWidget(openRazorpayCheckout(f1, s, start)))

\* The widget invokes `handler` (sig = "success") or `modal.ondismiss`, at
\* any time and any number of times.
WidgetSignals(s, sig) ==
    /\ WidgetExists(frame[s])
    /\ UNCHANGED late
    /\ LET f == frame[s]
       IN  Step(s, IF f.promise = "pending" THEN AfterWidget(Signal(f, s, sig)) ELSE f)

\* The verify-payment call completes with resp (lines 169-192).
VerifyReturns(s, resp) ==
    /\ frame[s].pc = "verify"
    /\ UNCHANGED late
    /\ LET f == frame[s]
           r == verifyPaymentOnServer(resp)
       IN  IF r.raised
           THEN Step(s, Finished([f EXCEPT !.log = @ \o <<"verify_threw">>], CatchAlerts("verify_error")))
           ELSE Step(s, Finished([f EXCEPT !.verification = r.value, !.log = @ \o <<"verify_ret">>],
                                 SuccessAlerts(f, r.value)))

Next ==
    \/ \E el \in Elems : InsertElement(el)
    \/ InitRegisterButtons
    \/ \E el \in Elems : Click(el)
    \/ \E s \in Seqs, start \in WidgetStarts : \E resp \in Responses(OrderBodies(s)) :
            CreateOrderReturns(s, resp, start)
    \/ \E s \in Seqs, sig \in {"success", "dismiss"} : WidgetSignals(s, sig)
    \/ \E s \in Seqs, resp \in Responses(VerifyBodies) : VerifyReturns(s, resp)

Spec == Init /\ [][Next]_vars

\* ---- a widget that keeps calling back ----
\* The user clicks at most MaxLiveClicks times, and the widgets invoke
\* `handler` or `modal.ondismiss` up to MaxLate times on a checkout that is
\* resolved already: resolve and reject are called again (lines 101-106),
\* and the handler call, which awaited the promise once, is not resumed.
MaxLiveClicks == 1
MaxLate == 1
ClickLive(el) == nseq < MaxLiveClicks /\ Click(el)

LateSignal(s, sig) ==
    /\ WidgetExists(frame[s])
    /\ frame[s].promise # "pending"
    /\ late < MaxLate
    /\ late' = late + 1
    /\ Step(s, Signal(frame[s], s, sig))

NextLive ==
    \/ \E el \in Elems : InsertElement(el)
    \/ InitRegisterButtons
    \/ \E el \in Elems : ClickLive(el)
    \/ \E s \in Seqs, start \in WidgetStarts : \E resp \in Responses(OrderBodies(s)) :
            CreateOrderReturns(s, resp, start)
    \/ \E s \in Seqs, sig \in {"success", "dismiss"} : WidgetSignals(s, sig)
    \/ \E s \in Seqs, sig \in {"success", "dismiss"} : LateSignal(s, sig)
    \/ \E s \in Seqs, resp \in Responses(VerifyBodies) : VerifyReturns(s, resp)

SpecRepeat == Init /\ [][NextLive]_vars

\* The same when what the program waits for does come: each fetch settles,
\* and a widget that has opened invokes `handler` or `modal.ondismiss`.
\* Awaited(s) is a step that completes what handler call s is waiting for.
Awaited(s) ==
    \/ \E start \in WidgetStarts : \E resp \in Responses(OrderBodies(s)) :
          CreateOrderReturns(s, resp, start)
    \/ \E sig \in {"success", "dismiss"} : WidgetSignals(s, sig)
    \/ \E resp \in Responses(VerifyBodies) : VerifyReturns(s, resp)
Fairness == \A s \in Seqs : WF_vars(Awaited(s))

SpecLive == Init /\ [][NextLive]_vars /\ Fairness
(* ------------------------------ properties ----------------------------- *)
Ended(f) == f.pc \in {"done", "crashed"}
Started(f) == f.pc # "idle"
InitFailure(f) == f.err \in {"ReferenceError", "ctor_error", "open_error"}
Restored(f, dis, lab) == dis[f.el] = FALSE /\ lab[f.el] = f.labelBefore

\* C1: whenever a click sequence ends, on whatever path, the step that ends
\* it leaves the trigger enabled and showing the label it showed just before
\* the click that started the sequence.
C1_FinalizerOnEveryPath ==
    [][\A s \in Seqs : (Started(frame[s]) /\ ~Ended(frame[s]) /\ Ended(frame'[s]))
            => Restored(frame'[s], disabled', label')]_vars

\* two sequences have ended, one with a success message and one without
\* any payment, and both triggers are enabled with their labels
C1_Witness ==
    \E s, t \in Seqs :
        /\ frame[s].pc = "done" /\ frame[s].promise = "fulfilled"
        /\ frame[t].pc = "done" /\ frame[t].promise = "rejected"
        /\ Restored(frame[s], disabled, label) /\ Restored(frame[t], disabled, label)

\* C2: no element has two checkout sequences in flight at the same time.
C2_OneSequencePerElement ==
    \A s, t \in Seqs :
        (s # t /\ InFlight(s) /\ InFlight(t)) => frame[s].el # frame[t].el

\* C3: whatever the number of runs of initRegisterButtons, an element carries
\* one click listener exactly when it is marked as bound (and only a matched
\* element of the document is), so that one click starts one handler call,
\* which issues one create-order request and shows at most one alert.
C3_BoundOnce ==
    /\ \A el \in Elems : listeners[el] = IF attached[el] THEN 1 ELSE 0
    /\ \A el \in Elems : attached[el] => CollectedTimes(inDOM, el) = 1
    /\ nseq = nclicks
    /\ \A s \in Seqs : Started(frame[s]) =>
            Count(frame[s].log, "create_req") = 1 /\ Len(frame[s].alerts) <= 1

\* the element matched by two selectors is bound once and a click on it
\* has run to its end
C3_Witness ==
    /\ Cardinality(Matches("btn") \cap selectors) = 2
    /\ attached["btn"] /\ listeners["btn"] = 1 /\ attached["lnk"]
    /\ nclicks = 1 /\ frame[1].el = "btn" /\ frame[1].pc = "done"
    /\ Len(frame[1].alerts) = 1

\* C4: once the widget's success callback has resolved the checkout with a
\* payment response, the sequence is verifying or settled; when it is
\* settled exactly one alert has been shown, a success message that carries
\* the payment identifier, and never the generic failure alert.
C4_SuccessAlwaysSettles ==
    \A s \in Seqs : frame[s].promise = "fulfilled" =>
        /\ frame[s].pc \in {"verify", "done"}
        /\ \A i \in 1..Len(frame[s].alerts) : frame[s].alerts[i].kind # "failed"
        /\ frame[s].pc = "done" =>
              /\ Len(frame[s].alerts) = 1
              /\ frame[s].alerts[1].kind \in {"verified", "pending"}
              /\ frame[s].alerts[1].payment_id = PaymentId(s)

\* a payment whose verification call returned null has been announced
C4_Witness ==
    \E s \in Seqs :
        /\ frame[s].pc = "done" /\ frame[s].promise = "fulfilled"
        /\ frame[s].verification.isNull
        /\ frame[s].alerts = <<[kind |-> "pending", payment_id |-> PaymentId(s)]>>

\* C5: after a widget success the "verified" message is shown exactly when
\* the verification result has the boolean true in its verified field.
C5_VerifiedOnlyOnTrue ==
    \A s \in Seqs : (frame[s].pc = "done" /\ frame[s].promise = "fulfilled") =>
        /\ Len(frame[s].alerts) = 1
        /\ frame[s].alerts[1].kind = "verified"
              <=> (~frame[s].verification.isNull /\ frame[s].verification.verified = "true")
        /\ frame[s].alerts[1].kind = "pending"
              <=> ~(~frame[s].verification.isNull /\ frame[s].verification.verified = "true")

\* C6: the widget is started after every return of createOrder, and when
\* createOrder returned null the configuration the widget holds has no
\* order_id and the amount of the create-order request.
C6_NullOrderStillOpens ==
    \A s \in Seqs :
        /\ Count(frame[s].log, "create_ret") = 1 => Count(frame[s].log, "widget_open") = 1
        /\ (frame[s].pc = "widget" /\ frame[s].orderResult.isNull) =>
              /\ frame[s].options.order_id = Undefined
              /\ frame[s].options.amount = frame[s].sent.amount

\* the widget is open without an order, for the amount 149.5 of the button
C6_Witness ==
    \E s \in Seqs :
        /\ frame[s].pc = "widget" /\ frame[s].orderResult.isNull
        /\ frame[s].el = "btn" /\ frame[s].sent.amount = 14950
        /\ frame[s].options.amount = 14950 /\ frame[s].options.order_id = Undefined

\* C7: when createOrder returned a descriptor with an order_id, the widget's
\* configuration carries that order_id.
C7_ServerOrderIdUsed ==
    \A s \in Seqs :
        (frame[s].pc = "widget" /\ ~frame[s].orderResult.isNull
            /\ frame[s].orderResult.order_id # Undefined)
        => frame[s].options.order_id = frame[s].orderResult.order_id

\* C8: a sequence that ends because the widget signalled dismissal has shown
\* no alert and made no verify-payment request, and the step that ends it
\* leaves the trigger enabled with the label it had before the click.
C8_DismissalIsSilent ==
    [][\A s \in Seqs : (frame'[s].pc = "done" /\ frame'[s].err = "checkout_dismissed") =>
            /\ frame'[s].alerts = <<>>
            /\ Count(frame'[s].log, "verify_req") = 0
            /\ ~Ended(frame[s]) => Restored(frame'[s], disabled', label')]_vars

\* a dismissed sequence, its trigger enabled and labelled as before
C8_Witness ==
    \E s \in Seqs :
        /\ frame[s].pc = "done" /\ frame[s].err = "checkout_dismissed"
        /\ frame[s].alerts = <<>> /\ Restored(frame[s], disabled, label)

\* C9: a sequence whose widget could not be constructed or opened (no
\* constructor, or a throw before any callback) ends, never crashes, with
\* exactly one generic failure alert and no verify-payment request, and the
\* step that ends it leaves the trigger enabled with its label restored.
C9_InitFailureAlertsOnce ==
    [][\A s \in Seqs : InitFailure(frame'[s]) =>
            /\ frame'[s].pc = "done"
            /\ frame'[s].alerts = <<[kind |-> "failed", payment_id |-> Undefined]>>
            /\ Count(frame'[s].log, "verify_req") = 0
            /\ Count(frame'[s].log, "unhandled") = 0
            /\ ~Ended(frame[s]) => Restored(frame'[s], disabled', label')]_vars

\* the constructor was missing: one failure alert, trigger restored
C9_Witness ==
    \E s \in Seqs :
        /\ frame[s].pc = "done" /\ frame[s].err = "ReferenceError"
        /\ Len(frame[s].alerts) = 1 /\ Restored(frame[s], disabled, label)

\* C10: no handler call ends with an unhandled error, whatever the network
\* and the widget do, and createOrder and verifyPayment return (null when
\* the request fails, the status is not a success or the body does not
\* decode) and never raise.
C10_NothingPropagates ==
    /\ \A s \in Seqs :
          /\ frame[s].pc # "crashed"
          /\ Count(frame[s].log, "unhandled") = 0
          /\ Count(frame[s].log, "verify_threw") = 0
    /\ \A s \in Seqs : \A r \in Responses(OrderBodies(s)) :
          /\ ~createOrderOnServer(r).raised
          /\ (r.rejects \/ ~r.ok \/ ~r.decodable) => createOrderOnServer(r).value = JsonNull
    /\ \A r \in Responses(VerifyBodies) :
          /\ ~verifyPaymentOnServer(r).raised
          /\ (r.rejects \/ ~r.ok \/ ~r.decodable) => verifyPaymentOnServer(r).value = JsonNull

\* one handler call has ended after both of its network calls, another
\* after a failure of the widget
C10_Witness ==
    \E s, t \in Seqs :
        /\ frame[s].pc = "done" /\ Count(frame[s].log, "verify_ret") = 1
        /\ frame[s].verification.isNull
        /\ frame[t].pc = "done" /\ InitFailure(frame[t])

\* C11: a trigger whose markup has no amount attribute pays the default of
\* 99 units: the create-order request and the widget options of each of its
\* handler calls carry 9900 minor units, and the handler reads 9900 from
\* the attribute both as initRegisterButtons leaves it and as the markup
\* left it.
C11_DefaultAmount ==
    /\ \A s \in Seqs :
          (Started(frame[s]) /\ InitialAmountAttr(frame[s].el) = Absent) =>
              /\ frame[s].sent.amount = 9900
              /\ frame[s].options # NoOptions => frame[s].options.amount = 9900
    /\ \A el \in Elems :
          InitialAmountAttr(el) = Absent =>
              /\ toPaise(AmountOrDefault(InitialAmountAttr(el))) = 9900
              /\ toPaise(AmountOrDefault(Backfilled(InitialAmountAttr(el)))) = 9900

\* the widget of a trigger without an amount attribute is open with 9900
C11_Witness ==
    \E s \in Seqs :
        /\ frame[s].pc = "widget" /\ InitialAmountAttr(frame[s].el) = Absent
        /\ amountAttr[frame[s].el] = <<"9", "9">>
        /\ frame[s].sent.amount = 9900 /\ frame[s].options.amount = 9900

\* C12: in the FAQ accordion at most one answer is open at any time, and a
\* click on question i leaves exactly answer i open when it was closed
\* before the click and no answer open when it was open before the click.
C12_Accordion ==
    /\ [](Cardinality(Visible(faqDisplay)) <= 1)
    /\ [][\A i \in Answers :
            (faqLast' = i /\ faqDisplay' # faqDisplay) =>
                Visible(faqDisplay') = IF i \in Visible(faqDisplay) THEN {} ELSE {i}]_vars

\* question 1 was clicked while its answer was closed: answer 1 alone is open
C12_Witness ==
    /\ faqLast = 1
    /\ Visible(faqDisplay) = {1}
    /\ \A a \in Answers \ {1} : faqDisplay[a] = "none"

\* C13: toPaise of a number, or of a string that is a decimal literal, is
\* 100 times its value rounded to the nearest integer (a tie going up), and
\* toPaise of anything else (no literal, NaN, undefined) is 0; every call
\* returns.
C13_ToPaise ==
    paiseOut # <<>> =>
        LET r == paiseOut[1]
            v == paiseIn.value
            d == 2 * (r * v.den - 100 * v.num)
        IN  IF v.nan THEN r = 0 ELSE 0 - v.den < d /\ d <= v.den

\* " -1.999 " has given -200
C13_Witness ==
    /\ paiseOut = <<0 - 200>>
    /\ paiseIn.arg = StrArg(<<" ", "-", "1", ".", "9", "9", "9", " ">>)

\* C14: handler calls on different elements do not touch each other. An
\* element none of whose calls has started is enabled and shows its own
\* label whatever is in flight elsewhere, and once bound it can be clicked; the
\* disabled flag and the label of an element change only in a step of a
\* call on that element; and a call that ends leaves its own element
\* enabled with the label that element had when the call was started.
C14_ElementsIndependent ==
    /\ [](\A el \in Elems :
            (\A s \in Seqs : Started(frame[s]) => frame[s].el # el) =>
                /\ ~disabled[el] /\ label[el] = InitialLabel(el)
                /\ attached[el] => el \in inDOM /\ listeners[el] = 1 /\ Activatable(el))
    /\ [][\A el \in Elems :
            (disabled'[el] # disabled[el] \/ label'[el] # label[el]) =>
                \E s \in Seqs : frame'[s] # frame[s] /\ frame'[s].el = el]_vars
    /\ [][\A s \in Seqs :
            (InFlight(s) /\ Ended(frame'[s])) =>
                /\ ~disabled'[frame[s].el]
                /\ label'[frame[s].el] = frame[s].labelBefore]_vars

\* the call on the button hangs in its create-order request; the link was
\* clicked after it and its call has run to its end
C14_Witness ==
    \E s, t \in Seqs :
        /\ s < t
        /\ frame[s].el = "btn" /\ frame[s].pc = "createOrder"
        /\ disabled["btn"] /\ label["btn"] = LOADING
        /\ frame[t].el = "lnk" /\ frame[t].pc = "done"
        /\ Count(frame[t].log, "verify_ret") = 1
        /\ ~disabled["lnk"] /\ label["lnk"] = InitialLabel("lnk")

\* the orders in which the events of one handler call may come
IsPrefix(p, q) == Len(p) <= Len(q) /\ p = SubSeq(q, 1, Len(p))
PaidOrder == <<"create_req", "create_ret", "widget_open", "verify_req", "verify_ret",
               "alert", "restore">>
FailedOrder == <<"create_req", "create_ret", "widget_open", "alert", "restore">>
DismissedOrder == <<"create_req", "create_ret", "widget_open", "restore">>

\* C15: the events of one handler call come in a fixed order, each at most
\* once: the create-order request, its completion, the opening of the
\* widget, then either the verify-payment request, its completion, the
\* message about the payment and the restoring of the trigger, or (the
\* widget having failed or been dismissed) at most one failure message and
\* the restoring of the trigger. A verify-payment request is made only
\* once the success callback has resolved the checkout, and a message
\* about a payment is shown only once the verify-payment call is back.
C15_FixedOrder ==
    \A s \in Seqs :
        LET f == frame[s]
        IN  /\ Started(f) => Count(f.log, "create_req") = 1
            /\ \/ IsPrefix(f.log, PaidOrder)
               \/ IsPrefix(f.log, FailedOrder)
               \/ IsPrefix(f.log, DismissedOrder)
            /\ Count(f.log, "verify_req") = 1 =>
                  f.promise = "fulfilled" /\ f.paymentResp # NoPayment
            /\ \A i \in 1..Len(f.alerts) :
                  f.alerts[i].kind # "failed" => IsPrefix(f.log, PaidOrder)

\* a call has gone through all seven events
C15_Witness ==
    \E s \in Seqs : frame[s].log = PaidOrder /\ frame[s].alerts[1].kind = "verified"

\* C16: when every network call completes and every opened widget invokes
\* a callback, each handler call that is in flight comes to its end with its
\* trigger enabled; and in no state is a trigger disabled while none of
\* its handler calls is in flight.
C16_EverySequenceEnds ==
    /\ \A s \in Seqs :
          InFlight(s) ~> (frame[s].pc = "done" /\ ~disabled[frame[s].el])
    /\ [](\A el \in Elems :
            disabled[el] => \E s \in Seqs : InFlight(s) /\ frame[s].el = el)

\* a call that went through the widget and the verify call has ended and
\* left its trigger enabled
C16_Witness ==
    \E s \in Seqs :
        /\ frame[s].pc = "done" /\ Count(frame[s].log, "verify_ret") = 1
        /\ ~disabled[frame[s].el]
        /\ \A t \in Seqs : ~InFlight(t)

\* C17: a trigger with a handler call in flight is disabled and shows the
\* loading label.
C17_InFlightIsDisabled ==
    \A s \in Seqs :
        InFlight(s) => disabled[frame[s].el] /\ label[frame[s].el] = LOADING

\* C18: every trigger that initRegisterButtons has bound has a non-empty
\* amount attribute: '99' if its markup had none, the value of its markup
\* otherwise; and no later step, a repeated initRegisterButtons included,
\* changes the amount attribute of a bound trigger.
C18_AmountBackfilled ==
    /\ [](\A el \in Elems :
            attached[el] =>
                /\ amountAttr[el] # Absent /\ amountAttr[el] # <<>>
                /\ amountAttr[el] = IF InitialAmountAttr(el) = Absent THEN <<"9", "9">>
                                    ELSE InitialAmountAttr(el))
    /\ [][\A el \in Elems : attached[el] => amountAttr'[el] = amountAttr[el]]_vars

\* both triggers are bound, the link with the default and the button with
\* its own amount, and a click has been handled since
C18_Witness ==
    /\ \A el \in Elems : attached[el] /\ listeners[el] = 1
    /\ amountAttr["lnk"] = <<"9", "9">>
    /\ amountAttr["btn"] = InitialAmountAttr("btn")
    /\ nclicks >= 1

\* C19: the amount and the receipt of a handler call are those of the
\* click: the options given to the widget carry the amount that was sent in
\* the create-order request, which is toPaise of the trigger's amount
\* attribute, and the receipt that was sent, whatever the order descriptor
\* of the server says.
C19_AmountAndReceiptFixed ==
    \A s \in Seqs :
        LET f == frame[s]
        IN  /\ Started(f) =>
                  /\ f.sent.amount = toPaise(amountAttr[f.el])
                  /\ f.sent.receipt = f.receipt
            /\ f.options # NoOptions =>
                  /\ f.options.amount = f.sent.amount
                  /\ f.options.receipt = f.sent.receipt

\* the widget of the button is open for 14950 with the receipt of the
\* click, on an order descriptor of the server that says 9900
C19_Witness ==
    \E s \in Seqs :
        /\ frame[s].pc = "widget" /\ frame[s].el = "btn"
        /\ ~frame[s].orderResult.isNull /\ frame[s].orderResult.amount = "9900"
        /\ frame[s].options.order_id = OrderId(s)
        /\ frame[s].options.amount = 14950 /\ frame[s].sent.amount = 14950
        /\ frame[s].options.receipt = frame[s].sent.receipt

\* C20: the checkout of a handler call is resolved once, by the first
\* signal of the widget. A callback or a throw that comes after it changes
\* neither the handler call nor the page; a fulfilled checkout has no error
\* and a rejected one no payment; and a handler call makes at most one
\* verify-payment request, shows at most one alert, and runs its finally
\* block at most once, exactly once when it has ended.
C20_ResolvedOnce ==
    /\ [][late' # late => UNCHANGED <<frame, disabled, label>>]_vars
    /\ [](\A s \in Seqs :
            LET f == frame[s]
            IN  /\ f.promise = "fulfilled" => f.err = "" /\ f.paymentResp # NoPayment
                /\ f.promise = "rejected" => f.err # "" /\ f.paymentResp = NoPayment
                /\ Count(f.log, "verify_req") <= 1
                /\ Len(f.alerts) <= 1 /\ Count(f.log, "alert") = Len(f.alerts)
                /\ Count(f.log, "restore") = IF f.pc = "done" THEN 1 ELSE 0)

\* the widget called back again on the one checkout there was, which had
\* been paid and has ended with one alert
C20_Witness ==
    /\ late >= 1
    /\ nseq = 1
    /\ frame[1].pc = "done" /\ frame[1].promise = "fulfilled"
    /\ Count(frame[1].log, "verify_req") = 1
    /\ Len(frame[1].alerts) = 1
    /\ Count(frame[1].log, "restore") = 1
====
